---- MODULE Spec2Model ----
(***************************************************************************)
(* Model of the metrics instrumentation layer of the AI support agent      *)
(* (src/monitoring/metrics_exporter.py): the Prometheus registry, the      *)
(* three instrumentation wrappers and the cost model.                      *)
(*                                                                         *)
(* Units.  Wall-clock time is kept in integer milliseconds (the LLM        *)
(* latency histogram, declared in seconds, is therefore scaled by 1000).   *)
(* Money is kept in integer units of 1/4,000,000 dollar, the per-token     *)
(* price of the cheapest rate of the table (0.25 $/MTok = 1 unit per       *)
(* token, 3.0 $/MTok = 12 units per token), so that every product of the   *)
(* cost model is an exact integer.  A confidence is kept in hundredths     *)
(* (0.85 = 85).                                                            *)
(*                                                                         *)
(* Python mappings are records with a field `keys` naming the keys that    *)
(* are present; a field whose key is not in `keys` is never read.          *)
(***************************************************************************)
EXTENDS Integers, Sequences, FiniteSets, TLC

VARIABLES
    REGISTRY,      \* the process-wide instruments (prometheus_client REGISTRY)
    clock,         \* time.time(), in milliseconds
    started,       \* number of wrapper calls started so far
    ticket_calls,  \* in-flight track_ticket_processing.wrapper frames, by call id
    llm_calls,     \* in-flight track_llm_call.wrapper frames, by call id
    http_calls,    \* in-flight track_http_request.wrapper frames, by call id
    last,          \* the wrapper call that completed most recently
    cost_call,     \* a direct call of calculate_llm_cost: arguments and result
    ledger,        \* per series, the sum of the amounts of the inc() and the
                   \* number of the observe() calls that returned so far
    invocations,   \* per wrapper call, how often it awaited the wrapped operation
    served         \* the document the metrics endpoint served last

vars == <<REGISTRY, clock, started, ticket_calls, llm_calls, http_calls, last, cost_call,
          ledger, invocations, served>>

----------------------------------------------------------------------------
(* Bounds of the model *)

MaxCalls == 2     \* wrapper calls started in one behaviour
MaxTicks == 1     \* clock advances in one behaviour

----------------------------------------------------------------------------
(* Python values *)

\* r.get(k, default) of a mapping r
Get(r, k, default) == IF k \in r.keys THEN r[k] ELSE default

Num(n) == [t |-> "num", v |-> n]
NoneValue == [t |-> "none", v |-> 0]
IsNum(x) == x.t = "num"

\* Exceptions: the classes below derive from Exception; since Python 3.8
\* asyncio.CancelledError derives from BaseException only.
ExceptionClasses == {"RuntimeError", "TimeoutError", "ValueError", "TypeError", "AttributeError"}
BaseOnlyClasses == {"CancelledError"}

Exc(type, value) == [type |-> type, value |-> value]

\* isinstance(e, Exception): what `except Exception` catches
IsException(e) == e.type \in ExceptionClasses

Return(v) == [kind |-> "return", value |-> v]
Raise(e) == [kind |-> "raise", exc |-> e]

\* str(status) of an integer status code, as Counter.labels() stores it
Digit(d) == CASE d = 0 -> "0" [] d = 1 -> "1" [] d = 2 -> "2" [] d = 3 -> "3"
              [] d = 4 -> "4" [] d = 5 -> "5" [] d = 6 -> "6" [] d = 7 -> "7"
              [] d = 8 -> "8" [] d = 9 -> "9"

RECURSIVE Str(_)
Str(n) == IF n < 10 THEN Digit(n) ELSE Str(n \div 10) \o Digit(n % 10)

----------------------------------------------------------------------------
(* Instruments of prometheus_client, as the exporter uses them *)

EmptySeries == [k \in {} |-> 0]

\* Counter.labels(...): the child series is created on first use, at 0
Labels(c, k) == IF k \in DOMAIN c THEN c ELSE c @@ (k :> 0)

\* value of a series as a snapshot shows it (an absent series counts 0)
Val(c, k) == IF k \in DOMAIN c THEN c[k] ELSE 0

\* an inc that stores the amount over what the series held
IncOverwrite(c, k, amount) == [Labels(c, k) EXCEPT ![k] = amount]

\* c.labels(k).inc(amount) for an amount that IncError accepts
Inc(c, k, amount) == [Labels(c, k) EXCEPT ![k] = @ + amount]


\* an inc that lets a negative amount through
IncErrorUnsigned(amount) ==
    IF ~IsNum(amount) THEN "TypeError"
    ELSE "none"

\* Counter.inc(amount) compares amount < 0 first: a non-numeric amount
\* is a TypeError, a negative one a ValueError, and neither adds anything.
IncError(amount) ==
    IF ~IsNum(amount) THEN "TypeError"
    ELSE IF amount.v < 0 THEN "ValueError"
    ELSE "none"


\* upper bounds of the histograms; the library appends +Inf to each
TicketBuckets == <<100, 250, 500, 1000, 2000, 3000, 5000, 10000, 15000, 20000, 30000>>
LlmBuckets == <<500, 1000, 2000, 3000, 5000, 10000, 15000, 20000, 30000, 60000>>

NewHistogram(bounds) == [sum |-> 0, buckets |-> [i \in 1..(Len(bounds) + 1) |-> 0]]

\* index of the first bucket whose upper bound is >= amount (+Inf is last)
BucketOf(bounds, amount) ==
    IF \E i \in 1..Len(bounds) : amount <= bounds[i]
    THEN CHOOSE i \in 1..Len(bounds) :
            /\ amount <= bounds[i]
            /\ \A j \in 1..(i - 1) : amount > bounds[j]
    ELSE Len(bounds) + 1

\* Histogram.observe(amount)
\* an observe that has no bucket for an amount above the last bound
ObserveFinite(h, bounds, amount) ==
    [sum |-> h.sum + amount,
     buckets |-> IF BucketOf(bounds, amount) = Len(bounds) + 1 THEN h.buckets
                 ELSE [h.buckets EXCEPT ![BucketOf(bounds, amount)] = @ + 1]]

Observe(h, bounds, amount) ==
    [sum |-> h.sum + amount,
     buckets |-> [h.buckets EXCEPT ![BucketOf(bounds, amount)] = @ + 1]]

RECURSIVE SumTo(_, _)
SumTo(f, n) == IF n = 0 THEN 0 ELSE f[n] + SumTo(f, n - 1)

\* cumulative count of bucket i, and the _count sample, as exported
Cumulative(h, i) == SumTo(h.buckets, i)
Count(h) == SumTo(h.buckets, Len(h.buckets))

\* labelled histogram: .labels(k) creates the child, .observe adds to it
HLabels(hs, bounds, k) == IF k \in DOMAIN hs THEN hs ELSE hs @@ (k :> NewHistogram(bounds))
HObserve(hs, bounds, k, amount) ==
    [HLabels(hs, bounds, k) EXCEPT ![k] = Observe(@, bounds, amount)]
HCount(hs, k) == IF k \in DOMAIN hs THEN Count(hs[k]) ELSE 0

\* the registry right after the module is imported
InitRegistry ==
    [tickets_processed_total        |-> EmptySeries,
     tickets_resolved_auto_total    |-> EmptySeries,
     tickets_escalated_total        |-> EmptySeries,
     http_requests_total            |-> EmptySeries,
     llm_api_requests_total         |-> EmptySeries,
     llm_api_errors_total           |-> EmptySeries,
     llm_tokens_total               |-> EmptySeries,
     llm_api_cost_dollars           |-> EmptySeries,
     response_duration_milliseconds |-> NewHistogram(TicketBuckets),
     llm_response_duration_seconds  |-> EmptySeries,
     queue_depth                        |-> EmptySeries,
     db_connections_active              |-> 0,
     db_connections_max                 |-> 0,
     db_connections_idle                |-> 0,
     cost_budget_monthly                |-> EmptySeries,
     support_agent_cost_savings_dollars |-> 0,
     monthly_cost_savings_dollars       |-> 0]

----------------------------------------------------------------------------
(* Cost model *)

\* pricing table of calculate_llm_cost, in units of 1/4,000,000 dollar per
\* token (3.0 / 1_000_000 dollar = 12 units)
pricing ==
    ("anthropic" :>
        (   "claude-sonnet-4" :> [input |-> 12, output |-> 60]
         @@ "claude-haiku"    :> [input |-> 1,  output |-> 5]))
    @@
    ("openai" :>
        (   "gpt-4"         :> [input |-> 120, output |-> 240]
         @@ "gpt-3.5-turbo" :> [input |-> 2,   output |-> 6]))

CostUnknown == 0   \* the 0.0 returned for an unpriced pair

\* the two rates applied to the wrong token counts
calculate_llm_cost_swapped(provider, model, input_tokens, output_tokens) ==
    IF provider \notin DOMAIN pricing \/ model \notin DOMAIN pricing[provider]
    THEN CostUnknown
    ELSE LET rates == pricing[provider][model]
         IN  (input_tokens * rates.output) + (output_tokens * rates.input)

calculate_llm_cost(provider, model, input_tokens, output_tokens) ==
    IF provider \notin DOMAIN pricing \/ model \notin DOMAIN pricing[provider]
    THEN CostUnknown
    ELSE LET rates == pricing[provider][model]
         IN  (input_tokens * rates.input) + (output_tokens * rates.output)

----------------------------------------------------------------------------
(* track_ticket_processing *)

ConfidenceDefault == Num(0)

\* the tiers with inclusive boundaries
ConfidenceTierInclusive(confidence) ==
    IF confidence.v >= 85 THEN "high"
    ELSE IF confidence.v >= 70 THEN "medium"
    ELSE "low"

\* the conditional expression of line 267; confidence is a number here
ConfidenceTier(confidence) ==
    IF confidence.v > 85 THEN "high"
    ELSE IF confidence.v > 70 THEN "medium"
    ELSE "low"

\* the locals the wrapper captures before it awaits the operation
TicketFrame(ticket, kwargs, now) ==
    [ticket      |-> ticket,
     kwargs      |-> kwargs,
     start_time  |-> now,
     category    |-> Get(ticket, "category", "general_inquiry"),
     channel     |-> Get(ticket, "channel", "web"),
     environment |-> Get(kwargs, "environment", "production")]

\* the escalation test made on its own, not as the alternative
TicketResolutionBoth(reg, f, result) ==
    IF ~result.mapping
    THEN [reg |-> reg, out |-> Raise(Exc("AttributeError", "get"))]
    ELSE LET confidence == Get(result, "confidence", ConfidenceDefault)
             r1 == IF Get(result, "auto_resolved", FALSE)
                   THEN [reg EXCEPT !.tickets_resolved_auto_total =
                            Inc(@, <<f.category, ConfidenceTier(confidence)>>, 1)]
                   ELSE reg
             r2 == IF Get(result, "escalated", FALSE)
                   THEN [r1 EXCEPT !.tickets_escalated_total =
                            Inc(@, <<f.category, Get(result, "escalation_reason", "unknown")>>, 1)]
                   ELSE r1
         IN  IF Get(result, "auto_resolved", FALSE) /\ ~IsNum(confidence)
             THEN [reg |-> reg, out |-> Raise(Exc("TypeError", ">"))]
             ELSE [reg |-> r2, out |-> Return(result)]

\* lines 265-277: the resolution counters, after the result came back
TicketResolution(reg, f, result) ==
    IF ~result.mapping
    THEN [reg |-> reg, out |-> Raise(Exc("AttributeError", "get"))]
    ELSE IF Get(result, "auto_resolved", FALSE)
    THEN LET confidence == Get(result, "confidence", ConfidenceDefault)
         IN  IF ~IsNum(confidence)
             THEN [reg |-> reg, out |-> Raise(Exc("TypeError", ">"))]
             ELSE [reg |-> [reg EXCEPT !.tickets_resolved_auto_total =
                               Inc(@, <<f.category, ConfidenceTier(confidence)>>, 1)],
                   out |-> Return(result)]
    ELSE IF Get(result, "escalated", FALSE)
    THEN [reg |-> [reg EXCEPT !.tickets_escalated_total =
                      Inc(@, <<f.category, Get(result, "escalation_reason", "unknown")>>, 1)],
          out |-> Return(result)]
    ELSE [reg |-> reg, out |-> Return(result)]

\* the processed counter without the histogram observation
TicketRecordNoObserve(reg, f, now) ==
    [reg EXCEPT !.tickets_processed_total =
                    Inc(@, <<f.category, f.environment, f.channel>>, 1)]

\* lines 253-262: duration observation and processed counter
TicketRecord(reg, f, now) ==
    [reg EXCEPT !.response_duration_milliseconds =
                    Observe(@, TicketBuckets, now - f.start_time),
                !.tickets_processed_total =
                    Inc(@, <<f.category, f.environment, f.channel>>, 1)]

\* the try block, from the moment the awaited operation completed with op
TicketTry(reg, f, op, now) ==
    IF op.kind = "raise"
    THEN [reg |-> reg, out |-> op]
    ELSE TicketResolution(TicketRecord(reg, f, now), f, op.value)

\* an except block that counts the failed ticket as processed
TicketExceptCounted(reg, f, e) ==
    [reg |-> [reg EXCEPT !.tickets_processed_total =
                             Inc(@, <<f.category, f.environment, f.channel>>, 1)],
     out |-> Raise(e)]

\* lines 281-283: except Exception as e: logger.error(...); raise
TicketExcept(reg, f, e) == [reg |-> reg, out |-> Raise(e)]

\* the wrapper from the completion of the operation to its own completion
TicketWrapper(reg, f, op, now) ==
    LET t == TicketTry(reg, f, op, now)
    IN  IF t.out.kind = "raise" /\ IsException(t.out.exc)
        THEN TicketExcept(t.reg, f, t.out.exc)
        ELSE t

----------------------------------------------------------------------------
(* track_llm_call(provider, model) *)

TokensDefault == Num(0)

\* the locals of the wrapper and the arguments of its decorator
LlmFrame(provider, model, now) ==
    [start_time |-> now, provider |-> provider, model |-> model]

\* lines 331-336: the cost counter, once both token counters accepted
LlmCost(reg, f, input_tokens, output_tokens) ==
    LET cost == Num(calculate_llm_cost(f.provider, f.model, input_tokens.v, output_tokens.v))
        r == [reg EXCEPT !.llm_api_cost_dollars = Labels(@, <<f.provider, f.model>>)]
    IN  IF IncError(cost) # "none"
        THEN [reg |-> r, out |-> Raise(Exc(IncError(cost), "inc"))]
        ELSE [reg |-> [r EXCEPT !.llm_api_cost_dollars =
                          Inc(@, <<f.provider, f.model>>, cost.v)],
              out |-> Return(TRUE)]

\* lines 315-336: the token and cost counters of a result with usage
LlmUsage(reg, f, usage) ==
    IF ~usage.mapping
    THEN [reg |-> reg, out |-> Raise(Exc("AttributeError", "get"))]
    ELSE
    LET input_tokens == Get(usage, "input_tokens", TokensDefault)
        output_tokens == Get(usage, "output_tokens", TokensDefault)
        kin == <<f.provider, f.model, "input">>
        kout == <<f.provider, f.model, "output">>
        r1 == [reg EXCEPT !.llm_tokens_total = Labels(@, kin)]
        r2 == [r1 EXCEPT !.llm_tokens_total = Inc(@, kin, input_tokens.v)]
        r3 == [r2 EXCEPT !.llm_tokens_total = Labels(@, kout)]
        r4 == [r3 EXCEPT !.llm_tokens_total = Inc(@, kout, output_tokens.v)]
    IN  IF IncError(input_tokens) # "none"
        THEN [reg |-> r1, out |-> Raise(Exc(IncError(input_tokens), "inc"))]
        ELSE IF IncError(output_tokens) # "none"
        THEN [reg |-> r3, out |-> Raise(Exc(IncError(output_tokens), "inc"))]
        ELSE LlmCost(r4, f, input_tokens, output_tokens)

\* a success counted under the wrong status label
LlmSuccessMislabelled(reg, f) ==
    [reg EXCEPT !.llm_api_requests_total = Inc(@, <<f.provider, f.model, "ok">>, 1)]

\* lines 338-343
LlmSuccess(reg, f) ==
    [reg EXCEPT !.llm_api_requests_total = Inc(@, <<f.provider, f.model, "success">>, 1)]

\* a wrapper that leaves the latency unobserved
LlmTimingSkipped(reg, f, now) == reg

\* lines 307-312
LlmTiming(reg, f, now) ==
    [reg EXCEPT !.llm_response_duration_seconds =
                    HObserve(@, LlmBuckets, <<f.provider, f.model>>, now - f.start_time)]

\* the try block, from the moment the awaited operation completed with op
LlmTry(reg, f, op, now) ==
    IF op.kind = "raise"
    THEN [reg |-> reg, out |-> op]
    ELSE
    LET result == op.value
        r1 == LlmTiming(reg, f, now)
    IN  IF ~result.mapping
        THEN [reg |-> r1, out |-> Raise(Exc("TypeError", "in"))]
        ELSE IF "usage" \in result.keys
        THEN LET u == LlmUsage(r1, f, result.usage)
             IN  IF u.out.kind = "raise"
                 THEN u
                 ELSE [reg |-> LlmSuccess(u.reg, f), out |-> Return(result)]
        ELSE [reg |-> LlmSuccess(r1, f), out |-> Return(result)]

\* an except block that raises a failure of its own in place of e
LlmExceptWrapped(reg, f, e) ==
    [reg |-> [reg EXCEPT !.llm_api_requests_total =
                             Inc(@, <<f.provider, f.model, "error">>, 1),
                         !.llm_api_errors_total =
                             Inc(@, <<f.provider, e.type>>, 1)],
     out |-> Raise(Exc("RuntimeError", "LLM call failed"))]

\* lines 347-361: except Exception as e
LlmExcept(reg, f, e) ==
    [reg |-> [reg EXCEPT !.llm_api_requests_total =
                             Inc(@, <<f.provider, f.model, "error">>, 1),
                         !.llm_api_errors_total =
                             Inc(@, <<f.provider, e.type>>, 1)],
     out |-> Raise(e)]

\* the wrapper from the completion of the operation to its own completion
LlmWrapper(reg, f, op, now) ==
    LET t == LlmTry(reg, f, op, now)
    IN  IF t.out.kind = "raise" /\ IsException(t.out.exc)
        THEN LlmExcept(t.reg, f, t.out.exc)
        ELSE t

----------------------------------------------------------------------------
(* track_http_request *)

HttpFailureStatus == 500

\* lines 380-388, from the moment the awaited handler completed with op
HttpTry(reg, request, op) ==
    IF op.kind = "raise"
    THEN [reg |-> reg, out |-> op]
    ELSE LET response == op.value
         IN  IF "status_code" \notin response.attrs
             THEN [reg |-> reg, out |-> Raise(Exc("AttributeError", "status_code"))]
             ELSE [reg |-> [reg EXCEPT !.http_requests_total =
                              Inc(@, <<request.method, request.path, Str(response.status_code)>>, 1)],
                   out |-> Return(response)]

\* lines 390-396: except Exception as e
HttpExcept(reg, request, e) ==
    [reg |-> [reg EXCEPT !.http_requests_total =
                             Inc(@, <<request.method, request.path, Str(HttpFailureStatus)>>, 1)],
     out |-> Raise(e)]

HttpWrapper(reg, request, op) ==
    LET t == HttpTry(reg, request, op)
    IN  IF t.out.kind = "raise" /\ IsException(t.out.exc)
        THEN HttpExcept(t.reg, request, t.out.exc)
        ELSE t

----------------------------------------------------------------------------
(* Periodic updaters *)

\* Gauge.labels(k).set(value)
GSet(g, k, value) == [Labels(g, k) EXCEPT ![k] = value]

\* a refresh that sets each gauge right after its read
QueueTryEager(reg, redis_client) ==
    LET high_priority == redis_client["queue:high"]
        medium_priority == redis_client["queue:medium"]
        low_priority == redis_client["queue:low"]
        r1 == [reg EXCEPT !.queue_depth = GSet(@, <<"high">>, high_priority.value)]
        r2 == [r1 EXCEPT !.queue_depth = GSet(@, <<"medium">>, medium_priority.value)]
        r3 == [r2 EXCEPT !.queue_depth = GSet(@, <<"low">>, low_priority.value)]
    IN  IF high_priority.kind = "raise" THEN [reg |-> reg, out |-> high_priority]
        ELSE IF medium_priority.kind = "raise" THEN [reg |-> r1, out |-> medium_priority]
        ELSE IF low_priority.kind = "raise" THEN [reg |-> r2, out |-> low_priority]
        ELSE [reg |-> r3, out |-> Return(NoneValue)]

\* lines 439-446: the three reads, then the three sets
QueueTry(reg, redis_client) ==
    LET high_priority == redis_client["queue:high"]
        medium_priority == redis_client["queue:medium"]
        low_priority == redis_client["queue:low"]
    IN  IF high_priority.kind = "raise" THEN [reg |-> reg, out |-> high_priority]
        ELSE IF medium_priority.kind = "raise" THEN [reg |-> reg, out |-> medium_priority]
        ELSE IF low_priority.kind = "raise" THEN [reg |-> reg, out |-> low_priority]
        ELSE [reg |-> [reg EXCEPT !.queue_depth =
                          GSet(GSet(GSet(@, <<"high">>, high_priority.value),
                                    <<"medium">>, medium_priority.value),
                               <<"low">>, low_priority.value)],
              out |-> Return(NoneValue)]

\* an updater swallows what its try block raised (except Exception:
\* logger.error) and returns None; tried keeps the outcome of the block
Swallow(t) ==
    IF t.out.kind = "raise" /\ IsException(t.out.exc)
    THEN [reg |-> t.reg, out |-> Return(NoneValue), tried |-> t.out]
    ELSE [reg |-> t.reg, out |-> t.out, tried |-> t.out]

\* lines 433-449
update_queue_metrics(reg, redis_client) == Swallow(QueueTry(reg, redis_client))

\* reading attribute a of the pool: a missing attribute is an AttributeError
PoolAttr(db_pool, a) ==
    IF a \in db_pool.attrs THEN Return(db_pool[a]) ELSE Raise(Exc("AttributeError", a))

\* Gauge.set(value) calls float(value): a TypeError for None
SetError(value) == IF IsNum(value) THEN "none" ELSE "TypeError"

\* idle set to the number of active connections
DbTryIdleWrong(reg, db_pool) ==
    LET size == PoolAttr(db_pool, "size")
        free_count == PoolAttr(db_pool, "free_count")
        max_size == PoolAttr(db_pool, "max_size")
        r1 == [reg EXCEPT !.db_connections_active = size.value.v - free_count.value.v]
        r2 == [r1 EXCEPT !.db_connections_max = max_size.value.v]
        r3 == [r2 EXCEPT !.db_connections_idle = size.value.v - free_count.value.v]
    IN  IF size.kind = "raise" THEN [reg |-> reg, out |-> size]
        ELSE IF free_count.kind = "raise" THEN [reg |-> reg, out |-> free_count]
        ELSE IF ~IsNum(size.value) \/ ~IsNum(free_count.value)
        THEN [reg |-> reg, out |-> Raise(Exc("TypeError", "-"))]
        ELSE IF max_size.kind = "raise" THEN [reg |-> r1, out |-> max_size]
        ELSE IF SetError(max_size.value) # "none"
        THEN [reg |-> r1, out |-> Raise(Exc(SetError(max_size.value), "float"))]
        ELSE [reg |-> r3, out |-> Return(NoneValue)]

\* lines 458-460, statement by statement
DbTry(reg, db_pool) ==
    LET size == PoolAttr(db_pool, "size")
        free_count == PoolAttr(db_pool, "free_count")
        max_size == PoolAttr(db_pool, "max_size")
        r1 == [reg EXCEPT !.db_connections_active = size.value.v - free_count.value.v]
        r2 == [r1 EXCEPT !.db_connections_max = max_size.value.v]
        r3 == [r2 EXCEPT !.db_connections_idle = free_count.value.v]
    IN  IF size.kind = "raise" THEN [reg |-> reg, out |-> size]
        ELSE IF free_count.kind = "raise" THEN [reg |-> reg, out |-> free_count]
        ELSE IF ~IsNum(size.value) \/ ~IsNum(free_count.value)
        THEN [reg |-> reg, out |-> Raise(Exc("TypeError", "-"))]
        ELSE IF max_size.kind = "raise" THEN [reg |-> r1, out |-> max_size]
        ELSE IF SetError(max_size.value) # "none"
        THEN [reg |-> r1, out |-> Raise(Exc(SetError(max_size.value), "float"))]
        ELSE [reg |-> r3, out |-> Return(NoneValue)]

\* lines 452-462
update_db_connection_metrics(reg, db_pool) == Swallow(DbTry(reg, db_pool))

\* lines 470-475, in dollars
budgets ==
    [llm_api |-> 1200, aws_infrastructure |-> 800, vector_db |-> 300, monitoring |-> 200]

monthly_operational_cost == 2500
monthly_support_savings == 4000

RECURSIVE SetBudgets(_, _)
SetBudgets(g, categories) ==
    IF categories = {} THEN g
    ELSE LET category == CHOOSE c \in categories : TRUE
         IN  SetBudgets(GSet(g, <<category>>, budgets[category]), categories \ {category})

\* the net savings with the two terms exchanged
update_cost_budget_tracking_negated(reg) ==
    [reg |-> [reg EXCEPT
                !.cost_budget_monthly = SetBudgets(@, DOMAIN budgets),
                !.support_agent_cost_savings_dollars = monthly_support_savings,
                !.monthly_cost_savings_dollars =
                    monthly_operational_cost - monthly_support_savings],
     out |-> Return(NoneValue), tried |-> Return(NoneValue)]

\* lines 465-485
update_cost_budget_tracking(reg) ==
    [reg |-> [reg EXCEPT
                !.cost_budget_monthly = SetBudgets(@, DOMAIN budgets),
                !.support_agent_cost_savings_dollars = monthly_support_savings,
                !.monthly_cost_savings_dollars =
                    monthly_support_savings - monthly_operational_cost],
     out |-> Return(NoneValue), tried |-> Return(NoneValue)]

----------------------------------------------------------------------------
(* The metrics endpoint *)

\* a histogram as exposed: _sum, _count and the cumulative _bucket samples
ExportHistogram(h) ==
    [sum |-> h.sum, count |-> Count(h),
     bucket |-> [i \in 1..Len(h.buckets) |-> Cumulative(h, i)]]

\* generate_latest(REGISTRY): the samples of every instrument
generate_latest(reg) ==
    [i \in DOMAIN reg |->
        IF i = "response_duration_milliseconds" THEN ExportHistogram(reg[i])
        ELSE IF i = "llm_response_duration_seconds"
        THEN [k \in DOMAIN reg[i] |-> ExportHistogram(reg[i][k])]
        ELSE reg[i]]

\* lines 507-513 (and main.py 184-193): the response body
metrics(reg) == generate_latest(reg)

----------------------------------------------------------------------------
(* The mutation calls of the wrappers, read off the same code paths as a
   log: which inc() and observe() calls one run of a wrapper makes that
   return normally, given the outcome op of the operation and the outcome
   out the caller received. *)

Mutation(instrument, series, amount) ==
    [instrument |-> instrument, series |-> series, amount |-> amount]

\* lines 255-277
TicketMutations(f, op, out) ==
    IF op.kind = "raise"
    THEN << >>
    ELSE <<Mutation("response_duration_milliseconds", << >>, 1),
           Mutation("tickets_processed_total", <<f.category, f.environment, f.channel>>, 1)>>
         \o (IF out.kind = "raise"
             THEN << >>
             ELSE IF Get(op.value, "auto_resolved", FALSE)
             THEN <<Mutation("tickets_resolved_auto_total",
                             <<f.category,
                               ConfidenceTier(Get(op.value, "confidence", ConfidenceDefault))>>, 1)>>
             ELSE IF Get(op.value, "escalated", FALSE)
             THEN <<Mutation("tickets_escalated_total",
                             <<f.category, Get(op.value, "escalation_reason", "unknown")>>, 1)>>
             ELSE << >>)

\* lines 349-358
LlmErrorMutations(f, e) ==
    IF IsException(e)
    THEN <<Mutation("llm_api_requests_total", <<f.provider, f.model, "error">>, 1),
           Mutation("llm_api_errors_total", <<f.provider, e.type>>, 1)>>
    ELSE << >>

\* lines 319-336: the token and cost increments the library accepted
LlmUsageMutations(f, result) ==
    IF ~result.mapping \/ "usage" \notin result.keys \/ ~result.usage.mapping
    THEN << >>
    ELSE LET input_tokens == Get(result.usage, "input_tokens", TokensDefault)
             output_tokens == Get(result.usage, "output_tokens", TokensDefault)
         IN  IF IncError(input_tokens) # "none"
             THEN << >>
             ELSE <<Mutation("llm_tokens_total", <<f.provider, f.model, "input">>, input_tokens.v)>>
                  \o (IF IncError(output_tokens) # "none"
                      THEN << >>
                      ELSE <<Mutation("llm_tokens_total", <<f.provider, f.model, "output">>,
                                      output_tokens.v),
                             Mutation("llm_api_cost_dollars", <<f.provider, f.model>>,
                                      calculate_llm_cost(f.provider, f.model,
                                                         input_tokens.v, output_tokens.v))>>)

\* lines 309-358
LlmMutations(f, op, out) ==
    IF op.kind = "raise"
    THEN LlmErrorMutations(f, op.exc)
    ELSE <<Mutation("llm_response_duration_seconds", <<f.provider, f.model>>, 1)>>
         \o LlmUsageMutations(f, op.value)
         \o (IF out.kind = "return"
             THEN <<Mutation("llm_api_requests_total", <<f.provider, f.model, "success">>, 1)>>
             ELSE LlmErrorMutations(f, out.exc))

\* lines 382-395
HttpMutations(request, op, out) ==
    IF out.kind = "return"
    THEN <<Mutation("http_requests_total",
                    <<request.method, request.path, Str(out.value.status_code)>>, 1)>>
    ELSE IF IsException(out.exc)
    THEN <<Mutation("http_requests_total",
                    <<request.method, request.path, Str(HttpFailureStatus)>>, 1)>>
    ELSE << >>

\* the instruments the wrappers mutate
Counters ==
    {"tickets_processed_total", "tickets_resolved_auto_total", "tickets_escalated_total",
     "http_requests_total", "llm_api_requests_total", "llm_api_errors_total",
     "llm_tokens_total", "llm_api_cost_dollars"}

Histograms == {"response_duration_milliseconds", "llm_response_duration_seconds"}

InitLedger == [i \in Counters \cup Histograms |-> EmptySeries]

\* the ledger after one more mutation call returned
Tally(l, m) ==
    [l EXCEPT ![m.instrument] =
        IF m.series \in DOMAIN @
        THEN [@ EXCEPT ![m.series] = @ + m.amount]
        ELSE @ @@ (m.series :> m.amount)]

RECURSIVE TallyAll(_, _)
TallyAll(l, ms) == IF ms = << >> THEN l ELSE TallyAll(Tally(l, Head(ms)), Tail(ms))

----------------------------------------------------------------------------
(* What the collaborators may supply *)

\* ticket mappings: with and without the category and channel keys
Tickets ==
    { [keys |-> {}, category |-> "", channel |-> ""],
      [keys |-> {"category", "channel"}, category |-> "billing", channel |-> "email"] }

\* keyword arguments of the call site
Kwargs ==
    { [keys |-> {}, environment |-> ""],
      [keys |-> {"environment"}, environment |-> "staging"] }

\* the call sites: one passes every label, one leaves every label out
TicketCallSites ==
    {<<ticket, kwargs>> \in Tickets \X Kwargs : (ticket.keys = {}) <=> (kwargs.keys = {})}

TicketResult(keys, auto, confidence, escalated, reason) ==
    [mapping |-> TRUE, keys |-> keys, auto_resolved |-> auto, confidence |-> confidence,
     escalated |-> escalated, escalation_reason |-> reason]

\* a result that is no mapping at all (an operation that returns None)
NotAMapping == [mapping |-> FALSE, keys |-> {}, auto_resolved |-> FALSE, confidence |-> NoneValue,
                escalated |-> FALSE, escalation_reason |-> ""]

Confidences == {Num(70), Num(85), Num(86), NoneValue}

TicketResults ==
    {NotAMapping, TicketResult({}, FALSE, NoneValue, FALSE, "")}
    \cup {TicketResult({"auto_resolved", "confidence"}, TRUE, c, FALSE, "") : c \in Confidences}
    \cup {TicketResult({"auto_resolved"}, TRUE, NoneValue, FALSE, ""),
          TicketResult({"auto_resolved", "confidence", "escalated", "escalation_reason"},
                       TRUE, Num(86), TRUE, "policy"),
          TicketResult({"escalated", "escalation_reason"}, FALSE, NoneValue, TRUE, "policy"),
          TicketResult({"escalated"}, FALSE, NoneValue, TRUE, "")}

\* failures of a wrapped operation; CancelledError is what a caller-side
\* timeout (asyncio.wait_for) throws into the awaited operation
Failures ==
    {Exc("RuntimeError", "boom"), Exc("TimeoutError", ""), Exc("CancelledError", "")}

\* the (provider, model) pairs the LLM operations are decorated with
Decorated ==
    {<<"anthropic", "claude-sonnet-4">>, <<"unknown-provider", "x">>}

Usage(keys, input_tokens, output_tokens) ==
    [mapping |-> TRUE, keys |-> keys, input_tokens |-> input_tokens, output_tokens |-> output_tokens]

NoUsage == [mapping |-> FALSE, keys |-> {}, input_tokens |-> NoneValue, output_tokens |-> NoneValue]

Usages ==
    {NoUsage,
     Usage({}, NoneValue, NoneValue),
     Usage({"input_tokens"}, Num(150), NoneValue),
     Usage({"input_tokens", "output_tokens"}, Num(150), Num(300)),
     Usage({"input_tokens", "output_tokens"}, Num(-1), Num(300)),
     Usage({"input_tokens", "output_tokens"}, Num(150), Num(-1)),
     Usage({"input_tokens", "output_tokens"}, NoneValue, Num(300))}

LlmResults ==
    {[mapping |-> FALSE, keys |-> {}, usage |-> NoUsage],
     [mapping |-> TRUE, keys |-> {}, usage |-> NoUsage]}
    \cup {[mapping |-> TRUE, keys |-> {"usage"}, usage |-> u] : u \in Usages}

Requests == {[method |-> "GET", path |-> "/health"], [method |-> "POST", path |-> "/api/v1/tickets"]}

\* responses; a handler may also return a plain mapping, which has no status_code
Responses ==
    {[attrs |-> {"status_code"}, status_code |-> 200],
     [attrs |-> {"status_code"}, status_code |-> 500],
     [attrs |-> {}, status_code |-> 0]}

\* queue stores: what llen answers for each of the three lists
RedisClient(high, medium, low) ==
    ("queue:high" :> high) @@ ("queue:medium" :> medium) @@ ("queue:low" :> low)

RedisClients ==
    {RedisClient(Return(2), Return(0), Return(5)),
     RedisClient(Return(7), Return(7), Return(7)),
     RedisClient(Raise(Exc("TimeoutError", "")), Return(7), Return(7)),
     RedisClient(Return(7), Raise(Exc("TimeoutError", "")), Return(7)),
     RedisClient(Return(7), Return(7), Raise(Exc("RuntimeError", "boom")))}

Pool(attrs, size, free_count, max_size) ==
    [attrs |-> attrs, size |-> size, free_count |-> free_count, max_size |-> max_size]

\* connection pools: complete ones, and ones on which a read fails
Pools ==
    {Pool({"size", "free_count", "max_size"}, Num(10), Num(4), Num(20)),
     Pool({"size", "free_count", "max_size"}, Num(5), Num(5), Num(20)),
     Pool({"size", "free_count"}, Num(8), Num(1), NoneValue),
     Pool({"size", "max_size"}, Num(8), NoneValue, Num(20)),
     Pool({"free_count", "max_size"}, NoneValue, Num(1), Num(20))}

\* one call site: the same ticket labels, model and route for every call
SharedTicket == [keys |-> {"category", "channel"}, category |-> "billing", channel |-> "email"]
SharedKwargs == [keys |-> {"environment"}, environment |-> "staging"]
SharedModel == <<"anthropic", "claude-sonnet-4">>
SharedRequest == [method |-> "POST", path |-> "/api/v1/tickets"]

\* results the instrumentation of lines 262-277, 314-343 and 382-386 accepts
TicketSuccesses ==
    {r \in TicketResults :
        /\ r.mapping
        /\ Get(r, "auto_resolved", FALSE) => IsNum(Get(r, "confidence", ConfidenceDefault))}

LlmSuccesses ==
    {r \in LlmResults :
        /\ r.mapping
        /\ "usage" \in r.keys =>
              /\ r.usage.mapping
              /\ IncError(Get(r.usage, "input_tokens", TokensDefault)) = "none"
              /\ IncError(Get(r.usage, "output_tokens", TokensDefault)) = "none"}

HttpSuccesses == {r \in Responses : "status_code" \in r.attrs /\ r.status_code = 200}

Outcomes(results) == {Return(r) : r \in results} \cup {Raise(e) : e \in Failures}

TickMs == 700    \* one advance of the clock, in milliseconds
MaxStalls == 3   \* stalls in one behaviour
StallMs == 20500 \* one stall, in milliseconds

----------------------------------------------------------------------------
(* The state machine *)

NoCalls == [id \in {} |-> 0]

\* no document was served yet
NotServed == [served |-> FALSE]

\* `await func(...)`: the wrapper call id hands control to the operation
InvokeTwice(inv, id, wrapper) == inv @@ (id :> [wrapper |-> wrapper, awaited |-> 2, finished |-> FALSE])

Invoke(inv, id, wrapper) == inv @@ (id :> [wrapper |-> wrapper, awaited |-> 1, finished |-> FALSE])

\* the wrapper call id returned or raised
Settle(inv, id) == [inv EXCEPT ![id].finished = TRUE]

NoCostCall == [state |-> "idle", provider |-> "", model |-> "", input_tokens |-> 0,
               output_tokens |-> 0, result |-> 0]

Init ==
    /\ REGISTRY = InitRegistry
    /\ clock = 0
    /\ started = 0
    /\ ticket_calls = NoCalls
    /\ llm_calls = NoCalls
    /\ http_calls = NoCalls
    /\ last = [wrapper |-> "none"]
    /\ cost_call = NoCostCall
    /\ ledger = InitLedger
    /\ invocations = NoCalls
    /\ served = NotServed

\* time passes while operations are suspended
Tick ==
    /\ clock < MaxTicks * TickMs
    /\ clock' = clock + TickMs
    /\ UNCHANGED <<REGISTRY, started, ticket_calls, llm_calls, http_calls, last, cost_call>>
    /\ UNCHANGED <<ledger, invocations, served>>

\* an operation stalls: a long stretch of time passes at once
Stall ==
    /\ clock < MaxStalls * StallMs
    /\ clock' = clock + StallMs
    /\ UNCHANGED <<REGISTRY, started, ticket_calls, llm_calls, http_calls, last, cost_call>>
    /\ UNCHANGED <<ledger, invocations, served>>

Remove(calls, id) == [i \in DOMAIN calls \ {id} |-> calls[i]]

\* a wrapper that keeps the start time where every call in flight reads it
TicketStartShared(ticket, kwargs) ==
    /\ started < MaxCalls
    /\ started' = started + 1
    /\ ticket_calls' = [id \in DOMAIN ticket_calls |->
                           [ticket_calls[id] EXCEPT !.start_time = clock]]
                       @@ (started + 1 :> TicketFrame(ticket, kwargs, clock))
    /\ invocations' = Invoke(invocations, started + 1, "ticket")
    /\ UNCHANGED <<REGISTRY, clock, llm_calls, http_calls, last, cost_call, ledger, served>>

\* wrapper(ticket, **kwargs) runs up to `await func(...)`
TicketStart(ticket, kwargs) ==
    /\ started < MaxCalls
    /\ started' = started + 1
    /\ ticket_calls' = ticket_calls @@ (started + 1 :> TicketFrame(ticket, kwargs, clock))
    /\ invocations' = Invoke(invocations, started + 1, "ticket")
    /\ UNCHANGED <<REGISTRY, clock, llm_calls, http_calls, last, cost_call, ledger, served>>

\* the awaited operation completes with op and the wrapper runs to its end
TicketFinish(id, op) ==
    /\ id \in DOMAIN ticket_calls
    /\ LET w == TicketWrapper(REGISTRY, ticket_calls[id], op, clock)
       IN  /\ REGISTRY' = w.reg
           /\ last' = [wrapper |-> "ticket", frame |-> ticket_calls[id],
                       op |-> op, out |-> w.out, pre |-> REGISTRY]
           /\ ledger' = TallyAll(ledger, TicketMutations(ticket_calls[id], op, w.out))
    /\ ticket_calls' = Remove(ticket_calls, id)
    /\ invocations' = Settle(invocations, id)
    /\ UNCHANGED <<clock, started, llm_calls, http_calls, cost_call, served>>

LlmStart(provider, model) ==
    /\ started < MaxCalls
    /\ started' = started + 1
    /\ llm_calls' = llm_calls @@ (started + 1 :> LlmFrame(provider, model, clock))
    /\ invocations' = Invoke(invocations, started + 1, "llm")
    /\ UNCHANGED <<REGISTRY, clock, ticket_calls, http_calls, last, cost_call, ledger, served>>

LlmFinish(id, op) ==
    /\ id \in DOMAIN llm_calls
    /\ LET w == LlmWrapper(REGISTRY, llm_calls[id], op, clock)
       IN  /\ REGISTRY' = w.reg
           /\ last' = [wrapper |-> "llm", frame |-> llm_calls[id],
                       op |-> op, out |-> w.out, pre |-> REGISTRY]
           /\ ledger' = TallyAll(ledger, LlmMutations(llm_calls[id], op, w.out))
    /\ llm_calls' = Remove(llm_calls, id)
    /\ invocations' = Settle(invocations, id)
    /\ UNCHANGED <<clock, started, ticket_calls, http_calls, cost_call, served>>

HttpStart(request) ==
    /\ started < MaxCalls
    /\ started' = started + 1
    /\ http_calls' = http_calls @@ (started + 1 :> request)
    /\ invocations' = Invoke(invocations, started + 1, "http")
    /\ UNCHANGED <<REGISTRY, clock, ticket_calls, llm_calls, last, cost_call, ledger, served>>

HttpFinish(id, op) ==
    /\ id \in DOMAIN http_calls
    /\ LET w == HttpWrapper(REGISTRY, http_calls[id], op)
       IN  /\ REGISTRY' = w.reg
           /\ last' = [wrapper |-> "http", frame |-> http_calls[id],
                       op |-> op, out |-> w.out, pre |-> REGISTRY]
           /\ ledger' = TallyAll(ledger, HttpMutations(http_calls[id], op, w.out))
    /\ http_calls' = Remove(http_calls, id)
    /\ invocations' = Settle(invocations, id)
    /\ UNCHANGED <<clock, started, ticket_calls, llm_calls, cost_call, served>>

\* the scheduler calls update_queue_metrics(redis_client)
QueueRefresh(redis_client) ==
    /\ LET u == update_queue_metrics(REGISTRY, redis_client)
       IN  /\ REGISTRY' = u.reg
           /\ last' = [wrapper |-> "queue", arg |-> redis_client,
                       tried |-> u.tried, out |-> u.out, pre |-> REGISTRY]
    /\ UNCHANGED <<clock, started, ticket_calls, llm_calls, http_calls, cost_call>>
    /\ UNCHANGED <<ledger, invocations, served>>

\* the scheduler calls update_db_connection_metrics(db_pool)
DbRefresh(db_pool) ==
    /\ LET u == update_db_connection_metrics(REGISTRY, db_pool)
       IN  /\ REGISTRY' = u.reg
           /\ last' = [wrapper |-> "db", arg |-> db_pool,
                       tried |-> u.tried, out |-> u.out, pre |-> REGISTRY]
    /\ UNCHANGED <<clock, started, ticket_calls, llm_calls, http_calls, cost_call>>
    /\ UNCHANGED <<ledger, invocations, served>>

\* the scheduler calls update_cost_budget_tracking()
BudgetRefresh ==
    /\ LET u == update_cost_budget_tracking(REGISTRY)
       IN  /\ REGISTRY' = u.reg
           /\ last' = [wrapper |-> "budget",
                       tried |-> u.tried, out |-> u.out, pre |-> REGISTRY]
    /\ UNCHANGED <<clock, started, ticket_calls, llm_calls, http_calls, cost_call>>
    /\ UNCHANGED <<ledger, invocations, served>>

\* a scrape that answers with the document of the scrape before it
ScrapeCached ==
    /\ served' = IF served.served THEN served
                 ELSE [served |-> TRUE, document |-> metrics(REGISTRY)]
    /\ last' = [wrapper |-> "metrics", pre |-> REGISTRY]
    /\ UNCHANGED <<REGISTRY, clock, started, ticket_calls, llm_calls, http_calls, cost_call>>
    /\ UNCHANGED <<ledger, invocations>>

\* GET /metrics is answered
Scrape ==
    /\ served' = [served |-> TRUE, document |-> metrics(REGISTRY)]
    /\ last' = [wrapper |-> "metrics", pre |-> REGISTRY]
    /\ UNCHANGED <<REGISTRY, clock, started, ticket_calls, llm_calls, http_calls, cost_call>>
    /\ UNCHANGED <<ledger, invocations>>

QueueUpdate == \E redis_client \in RedisClients : QueueRefresh(redis_client)
DbUpdate == \E db_pool \in Pools : DbRefresh(db_pool)

TicketCall == \E site \in TicketCallSites : TicketStart(site[1], site[2])
TicketDone == \E id \in 1..MaxCalls, op \in Outcomes(TicketResults) : TicketFinish(id, op)
LlmCall == \E d \in Decorated : LlmStart(d[1], d[2])
LlmDone == \E id \in 1..MaxCalls, op \in Outcomes(LlmResults) : LlmFinish(id, op)
HttpCall == \E request \in Requests : HttpStart(request)
HttpDone == \E id \in 1..MaxCalls, op \in Outcomes(Responses) : HttpFinish(id, op)

\* the three wrappers side by side, at one instant of the clock
Next ==
    \/ TicketCall
    \/ TicketDone
    \/ LlmCall
    \/ LlmDone
    \/ HttpCall
    \/ HttpDone

Spec == Init /\ [][Next]_vars

\* ticket processing alone, with time passing
NextTicket ==
    \/ Tick
    \/ TicketCall
    \/ TicketDone

SpecTicket == Init /\ [][NextTicket]_vars

\* LLM calls alone, with time passing
NextLlm ==
    \/ Tick
    \/ LlmCall
    \/ LlmDone

SpecLlm == Init /\ [][NextLlm]_vars

\* HTTP handlers alone (the wrapper does not read the clock)
NextHttp ==
    \/ HttpCall
    \/ HttpDone

SpecHttp == Init /\ [][NextHttp]_vars

\* calls of one call site, all succeeding, overlapping in every order
SharedTicketCall == TicketStart(SharedTicket, SharedKwargs)
SharedTicketDone == \E id \in 1..MaxCalls, r \in TicketSuccesses : TicketFinish(id, Return(r))
SharedLlmCall == LlmStart(SharedModel[1], SharedModel[2])
SharedLlmDone == \E id \in 1..MaxCalls, r \in LlmSuccesses : LlmFinish(id, Return(r))
SharedHttpCall == HttpStart(SharedRequest)
SharedHttpDone == \E id \in 1..MaxCalls, r \in HttpSuccesses : HttpFinish(id, Return(r))

NextConcurrent ==
    \/ SharedTicketCall
    \/ SharedTicketDone
    \/ SharedLlmCall
    \/ SharedLlmDone
    \/ SharedHttpCall
    \/ SharedHttpDone
    \/ Tick

SpecConcurrent == Init /\ [][NextConcurrent]_vars

\* results that carry nothing but the fact of success
PlainTicketResult == TicketResult({}, FALSE, NoneValue, FALSE, "")
PlainLlmResult == [mapping |-> TRUE, keys |-> {}, usage |-> NoUsage]

TimedTicketDone == \E id \in 1..MaxCalls : TicketFinish(id, Return(PlainTicketResult))
TimedLlmDone == \E id \in 1..MaxCalls : LlmFinish(id, Return(PlainLlmResult))

\* timed calls of one call site, some of them stalling
NextHistogram ==
    \/ SharedTicketCall
    \/ TimedTicketDone
    \/ SharedLlmCall
    \/ TimedLlmDone
    \/ Stall

SpecHistogram == Init /\ [][NextHistogram]_vars

\* scrapes between mutations of all three kinds
NextExport ==
    \/ HttpCall
    \/ HttpDone
    \/ SharedTicketCall
    \/ TimedTicketDone
    \/ BudgetRefresh
    \/ Scrape

SpecExport == Init /\ [][NextExport]_vars

\* LLM operations decorated for two models of one provider and for
\* another provider, with outcomes of every kind the wrapper tells apart
ModelSites == Decorated \cup {<<"anthropic", "claude-haiku">>}

ModelOutcomes ==
    {Return(PlainLlmResult),
     Return([mapping |-> FALSE, keys |-> {}, usage |-> NoUsage]),
     Return([mapping |-> TRUE, keys |-> {"usage"},
             usage |-> Usage({"input_tokens", "output_tokens"}, Num(150), Num(-1))]),
     Raise(Exc("RuntimeError", "boom")),
     Raise(Exc("CancelledError", ""))}

ModelCall == \E d \in ModelSites : LlmStart(d[1], d[2])
ModelDone == \E id \in 1..MaxCalls, op \in ModelOutcomes : LlmFinish(id, op)

NextModels ==
    \/ ModelCall
    \/ ModelDone

SpecModels == Init /\ [][NextModels]_vars

\* the periodic updaters beside request handling
NextRefresh ==
    \/ QueueUpdate
    \/ DbUpdate
    \/ BudgetRefresh
    \/ HttpCall
    \/ HttpDone

SpecRefresh == Init /\ [][NextRefresh]_vars

\* LLM calls and request handling with the budget refresh between them
NextRegistry ==
    \/ LlmCall
    \/ LlmDone
    \/ HttpCall
    \/ HttpDone
    \/ BudgetRefresh

SpecRegistry == Init /\ [][NextRegistry]_vars

----------------------------------------------------------------------------
(* Direct calls of the cost model *)

Providers == {"anthropic", "openai", "unknown-provider"}
Models == {"claude-sonnet-4", "claude-haiku", "gpt-4", "gpt-3.5-turbo", "x"}
TokenCounts == {0, 1, 150, 1000000}

InitCost ==
    /\ REGISTRY = InitRegistry
    /\ clock = 0
    /\ started = 0
    /\ ticket_calls = NoCalls
    /\ llm_calls = NoCalls
    /\ http_calls = NoCalls
    /\ last = [wrapper |-> "none"]
    /\ cost_call \in [state : {"called"}, provider : Providers, model : Models,
                      input_tokens : TokenCounts, output_tokens : TokenCounts, result : {0}]
    /\ ledger = InitLedger
    /\ invocations = NoCalls
    /\ served = NotServed

CostReturn ==
    /\ cost_call.state = "called"
    /\ cost_call' = [cost_call EXCEPT
            !.state = "returned",
            !.result = calculate_llm_cost(cost_call.provider, cost_call.model,
                                          cost_call.input_tokens, cost_call.output_tokens)]
    /\ UNCHANGED <<REGISTRY, clock, started, ticket_calls, llm_calls, http_calls, last>>
    /\ UNCHANGED <<ledger, invocations, served>>

NextCost == CostReturn

SpecCost == InitCost /\ [][NextCost]_vars

----------------------------------------------------------------------------
(* Properties.  `last` holds the wrapper call that completed most recently:
   its frame, the outcome op of the wrapped operation, the outcome out the
   caller received and the registry pre as it was when the operation
   completed; REGISTRY is the registry when the wrapper completed. *)

SameValues(c1, c0) == \A k \in DOMAIN c1 \cup DOMAIN c0 : Val(c1, k) = Val(c0, k)

\* series k of the counter grew by n and no other series changed
OnlyIncrement(c1, c0, k, n) ==
    /\ Val(c1, k) = Val(c0, k) + n
    /\ \A j \in (DOMAIN c1 \cup DOMAIN c0) \ {k} : Val(c1, j) = Val(c0, j)

SameCounts(hs1, hs0) == \A k \in DOMAIN hs1 \cup DOMAIN hs0 : HCount(hs1, k) = HCount(hs0, k)

Completed(w) == last.wrapper = w
OpFailed == last.wrapper # "none" /\ last.op.kind = "raise"
OpReturned == last.wrapper # "none" /\ last.op.kind = "return"
CallerGotFailure == last.wrapper # "none" /\ last.out.kind = "raise"
CallerGotOpFailure == last.out.kind = "raise" /\ last.out.exc = last.op.exc
CallerGotOpValue == last.out.kind = "return" /\ last.out.value = last.op.value

\* C1: whenever the wrapped operation of any of the three wrappers raises
\* a failure, the caller of the wrapper receives that same failure (same
\* type and value), never a value and never another failure.
C1_FailurePropagates == OpFailed => CallerGotOpFailure

\* a failing LLM operation whose failure went through the except block
C1_Witness ==
    /\ Completed("llm")
    /\ last.op = Raise(Exc("RuntimeError", "boom"))
    /\ last.out = Raise(Exc("RuntimeError", "boom"))
    /\ Val(REGISTRY.llm_api_errors_total, <<last.frame.provider, "RuntimeError">>)
         = Val(last.pre.llm_api_errors_total, <<last.frame.provider, "RuntimeError">>) + 1

LlmSuccessPathUnchanged ==
    /\ SameCounts(REGISTRY.llm_response_duration_seconds, last.pre.llm_response_duration_seconds)
    /\ SameValues(REGISTRY.llm_tokens_total, last.pre.llm_tokens_total)
    /\ SameValues(REGISTRY.llm_api_cost_dollars, last.pre.llm_api_cost_dollars)
    /\ Val(REGISTRY.llm_api_requests_total, <<last.frame.provider, last.frame.model, "success">>)
         = Val(last.pre.llm_api_requests_total, <<last.frame.provider, last.frame.model, "success">>)

LlmErrorRecordedOnce(type) ==
    /\ OnlyIncrement(REGISTRY.llm_api_requests_total, last.pre.llm_api_requests_total,
                     <<last.frame.provider, last.frame.model, "error">>, 1)
    /\ OnlyIncrement(REGISTRY.llm_api_errors_total, last.pre.llm_api_errors_total,
                     <<last.frame.provider, type>>, 1)

\* C2: every call of an LLM-wrapped operation that ends in a failure
\* reaching the caller increments the request counter with status=error and
\* the error counter of the failure's type name by exactly 1 each and
\* changes none of the success-path instruments.
C2_FailureRecordedOnce ==
    (Completed("llm") /\ CallerGotFailure) =>
        /\ LlmErrorRecordedOnce(last.out.exc.type)
        /\ LlmSuccessPathUnchanged

TicketInstrumentsUnchanged ==
    /\ REGISTRY.response_duration_milliseconds = last.pre.response_duration_milliseconds
    /\ SameValues(REGISTRY.tickets_processed_total, last.pre.tickets_processed_total)
    /\ SameValues(REGISTRY.tickets_resolved_auto_total, last.pre.tickets_resolved_auto_total)
    /\ SameValues(REGISTRY.tickets_escalated_total, last.pre.tickets_escalated_total)

\* C3: a call of a ticket-wrapped operation that ends in a failure reaching
\* the caller changes no instrument: the duration histogram and the
\* processed, auto-resolved and escalated counters keep their values.
C3_FailedTicketChangesNothing ==
    (Completed("ticket") /\ CallerGotFailure) => TicketInstrumentsUnchanged

CancellationStyle == {"CancelledError", "TimeoutError"}

NoDurationObserved ==
    /\ Count(REGISTRY.response_duration_milliseconds) = Count(last.pre.response_duration_milliseconds)
    /\ SameCounts(REGISTRY.llm_response_duration_seconds, last.pre.llm_response_duration_seconds)

\* C4: a cancellation-style failure of the wrapped operation is treated
\* like any other failure: the LLM wrapper increments the request counter
\* with status=error and the error counter once each, the HTTP wrapper
\* increments the request counter with status 500, the cancellation is
\* re-raised and no duration is observed.
C4_CancellationRecorded ==
    (OpFailed /\ last.op.exc.type \in CancellationStyle) =>
        /\ CallerGotOpFailure
        /\ NoDurationObserved
        /\ Completed("llm") => LlmErrorRecordedOnce(last.op.exc.type)
        /\ Completed("http") =>
              OnlyIncrement(REGISTRY.http_requests_total, last.pre.http_requests_total,
                            <<last.frame.method, last.frame.path, "500">>, 1)

\* C5: whenever the wrapped operation returns a value, whatever its shape,
\* the caller receives that value and nothing is raised, and the call is
\* not recorded as an error.
C5_SuccessPreserved ==
    OpReturned =>
        /\ CallerGotOpValue
        /\ Completed("llm") =>
              /\ SameValues(REGISTRY.llm_api_errors_total, last.pre.llm_api_errors_total)
              /\ Val(REGISTRY.llm_api_requests_total, <<last.frame.provider, last.frame.model, "error">>)
                   = Val(last.pre.llm_api_requests_total, <<last.frame.provider, last.frame.model, "error">>)

\* C6: every completed call of an HTTP-wrapped handler increments exactly
\* one series of ai_agent_http_requests_total, by 1: (method, path, status
\* code of the response) when the handler returns, (method, path, 500) when
\* it fails, and the failure is re-raised.
C6_HttpCountedOnce ==
    Completed("http") =>
        /\ \E k \in DOMAIN REGISTRY.http_requests_total :
              OnlyIncrement(REGISTRY.http_requests_total, last.pre.http_requests_total, k, 1)
        /\ (last.op.kind = "return" /\ "status_code" \in last.op.value.attrs) =>
              OnlyIncrement(REGISTRY.http_requests_total, last.pre.http_requests_total,
                            <<last.frame.method, last.frame.path, Str(last.op.value.status_code)>>, 1)
        /\ last.op.kind = "raise" =>
              /\ OnlyIncrement(REGISTRY.http_requests_total, last.pre.http_requests_total,
                               <<last.frame.method, last.frame.path, "500">>, 1)
              /\ CallerGotOpFailure

\* the labels the claim expects for a ticket call, from its arguments
ExpectedCategory ==
    IF "category" \in last.frame.ticket.keys THEN last.frame.ticket.category ELSE "general_inquiry"
ExpectedChannel ==
    IF "channel" \in last.frame.ticket.keys THEN last.frame.ticket.channel ELSE "web"
ExpectedEnvironment ==
    IF "environment" \in last.frame.kwargs.keys THEN last.frame.kwargs.environment ELSE "production"

\* C7: every call of a ticket-wrapped operation whose operation returned
\* adds exactly one observation to the response-duration histogram and
\* increments tickets_processed_total by exactly 1 on the series
\* (category or "general_inquiry", environment or "production", channel
\* or "web"), and on no other series.
C7_TicketSuccessRecorded ==
    (Completed("ticket") /\ OpReturned) =>
        /\ Count(REGISTRY.response_duration_milliseconds)
             = Count(last.pre.response_duration_milliseconds) + 1
        /\ OnlyIncrement(REGISTRY.tickets_processed_total, last.pre.tickets_processed_total,
                         <<ExpectedCategory, ExpectedEnvironment, ExpectedChannel>>, 1)

\* the second successful call of a ticket without category and channel
C7_Witness ==
    /\ Completed("ticket")
    /\ last.out.kind = "return"
    /\ last.frame.ticket.keys = {}
    /\ last.frame.kwargs.keys = {}
    /\ Val(REGISTRY.tickets_processed_total, <<"general_inquiry", "production", "web">>) = 2
    /\ Count(REGISTRY.response_duration_milliseconds) = 2

AutoResolvedReturned ==
    /\ Completed("ticket")
    /\ last.out.kind = "return"
    /\ "auto_resolved" \in last.out.value.keys
    /\ last.out.value.auto_resolved

\* the tier the claim assigns to a confidence c in hundredths
ClaimedTier(c) ==
    CASE c > 85 -> "high"
      [] c > 70 /\ c <= 85 -> "medium"
      [] OTHER -> "low"

ClaimedTierOfLast ==
    IF "confidence" \in last.out.value.keys
    THEN ClaimedTier(last.out.value.confidence.v)
    ELSE "low"

\* C8: the confidence tier that labels tickets_resolved_auto_total is high
\* exactly when c > 0.85, medium exactly when 0.70 < c <= 0.85 and low
\* otherwise, low also for a result without confidence: an auto-resolved
\* call increments the series (category, that tier) by 1 and no other.
C8_StrictTiers ==
    AutoResolvedReturned =>
        OnlyIncrement(REGISTRY.tickets_resolved_auto_total, last.pre.tickets_resolved_auto_total,
                      <<ExpectedCategory, ClaimedTierOfLast>>, 1)

\* an auto-resolved result with confidence exactly 0.85, counted as medium
C8_Witness ==
    /\ AutoResolvedReturned
    /\ "confidence" \in last.out.value.keys
    /\ last.out.value.confidence = Num(85)
    /\ Val(REGISTRY.tickets_resolved_auto_total, <<ExpectedCategory, "medium">>)
         = Val(last.pre.tickets_resolved_auto_total, <<ExpectedCategory, "medium">>) + 1

LlmReturned == Completed("llm") /\ last.out.kind = "return"

ReportedTokens(usage, key) == IF key \in usage.keys THEN usage[key].v ELSE 0

\* C9: every successful call of an LLM-wrapped operation adds one
\* observation to the latency histogram of (provider, model) and 1 to the
\* request counter with status=success; with a usage mapping the input and
\* output token series grow by the reported counts (0 when missing) and
\* the cost counter by the cost of those counts; without usage the token
\* and cost counters keep their values.
C9_LlmSuccessRecorded ==
    LlmReturned =>
        LET pm == <<last.frame.provider, last.frame.model>>
            result == last.out.value
            tin == ReportedTokens(result.usage, "input_tokens")
            tout == ReportedTokens(result.usage, "output_tokens")
        IN  /\ HCount(REGISTRY.llm_response_duration_seconds, pm)
                 = HCount(last.pre.llm_response_duration_seconds, pm) + 1
            /\ \A k \in DOMAIN REGISTRY.llm_response_duration_seconds \ {pm} :
                   HCount(REGISTRY.llm_response_duration_seconds, k)
                     = HCount(last.pre.llm_response_duration_seconds, k)
            /\ OnlyIncrement(REGISTRY.llm_api_requests_total, last.pre.llm_api_requests_total,
                             <<pm[1], pm[2], "success">>, 1)
            /\ IF "usage" \in result.keys
               THEN /\ Val(REGISTRY.llm_tokens_total, <<pm[1], pm[2], "input">>)
                         = Val(last.pre.llm_tokens_total, <<pm[1], pm[2], "input">>) + tin
                    /\ Val(REGISTRY.llm_tokens_total, <<pm[1], pm[2], "output">>)
                         = Val(last.pre.llm_tokens_total, <<pm[1], pm[2], "output">>) + tout
                    /\ OnlyIncrement(REGISTRY.llm_api_cost_dollars, last.pre.llm_api_cost_dollars,
                                     pm, calculate_llm_cost(pm[1], pm[2], tin, tout))
               ELSE /\ SameValues(REGISTRY.llm_tokens_total, last.pre.llm_tokens_total)
                    /\ SameValues(REGISTRY.llm_api_cost_dollars, last.pre.llm_api_cost_dollars)

\* a second priced call with usage: 150 input and 300 output tokens
C9_Witness ==
    /\ LlmReturned
    /\ last.frame.provider = "anthropic"
    /\ "usage" \in last.out.value.keys
    /\ last.out.value.usage.keys = {"input_tokens", "output_tokens"}
    /\ Val(REGISTRY.llm_tokens_total, <<"anthropic", "claude-sonnet-4", "output">>) = 600
    /\ Val(REGISTRY.llm_api_cost_dollars, <<"anthropic", "claude-sonnet-4">>) = 2 * (150 * 12 + 300 * 60)
    /\ Val(REGISTRY.llm_api_requests_total, <<"anthropic", "claude-sonnet-4", "success">>) = 2

Dollar == 4000000    \* units of money in one dollar

Priced(provider, model) == provider \in DOMAIN pricing /\ model \in DOMAIN pricing[provider]

\* C10: calculate_llm_cost returns input_tokens times the input rate plus
\* output_tokens times the output rate of the price table for a priced
\* pair (3.0 dollars for 1,000,000 input tokens of anthropic /
\* claude-sonnet-4, 15.0 for 1,000,000 output tokens) and 0.0 for a pair
\* whose provider or model is not in the table.
C10_CostFormula ==
    cost_call.state = "returned" =>
        LET c == cost_call
        IN  /\ Priced(c.provider, c.model) =>
                 c.result = c.input_tokens * pricing[c.provider][c.model].input
                            + c.output_tokens * pricing[c.provider][c.model].output
            /\ ~Priced(c.provider, c.model) => c.result = 0
            /\ (c.provider = "anthropic" /\ c.model = "claude-sonnet-4"
                  /\ c.input_tokens = 1000000 /\ c.output_tokens = 0) => c.result = 3 * Dollar
            /\ (c.provider = "anthropic" /\ c.model = "claude-sonnet-4"
                  /\ c.input_tokens = 0 /\ c.output_tokens = 1000000) => c.result = 15 * Dollar

\* the 15-dollar example of the price table, computed
C10_Witness ==
    /\ cost_call.state = "returned"
    /\ cost_call.provider = "anthropic"
    /\ cost_call.model = "claude-sonnet-4"
    /\ cost_call.input_tokens = 0
    /\ cost_call.output_tokens = 1000000
    /\ cost_call.result = 15 * Dollar

\* every counter series holds what the increments applied to it add up to
LedgerAgrees ==
    \A c \in Counters :
        \A k \in DOMAIN REGISTRY[c] \cup DOMAIN ledger[c] :
            Val(REGISTRY[c], k) = Val(ledger[c], k)

\* no step lowers a counter series or removes one
CountersNeverDecrease ==
    \A c \in Counters :
        \A k \in DOMAIN REGISTRY[c] : Val(REGISTRY'[c], k) >= REGISTRY[c][k]

\* C11: through any sequence of wrapper calls and refreshes, every
\* counter series equals the sum of the increments applied to it and no
\* step lowers one; in particular no token count or cost reported by a
\* collaborator lowers llm_tokens_total or llm_api_cost_dollars.
C11_CountersAccumulate == []LedgerAgrees /\ [][CountersNeverDecrease]_vars

\* tokens counted, a budget refresh done, and then a call whose negative
\* token count was refused
C11_Witness ==
    /\ Completed("llm")
    /\ last.out.kind = "raise"
    /\ last.out.exc.type = "ValueError"
    /\ \E k \in DOMAIN last.pre.llm_tokens_total : last.pre.llm_tokens_total[k] > 0
    /\ REGISTRY.monthly_cost_savings_dollars = 1500

\* the calls of wrapper w that have completed, and those still awaiting
Settled(w) == {id \in DOMAIN invocations : invocations[id].wrapper = w /\ invocations[id].finished}
InFlight(w) == {id \in DOMAIN invocations : invocations[id].wrapper = w /\ ~invocations[id].finished}

\* C12: when N calls with the same label values overlap and all succeed,
\* the series they share has grown by exactly N once they are done,
\* however their starts and completions interleave: the processed
\* counter and duration count for tickets, the success counter and
\* duration count for LLM calls, the request counter for HTTP.
C12_NoLostIncrement ==
    /\ last.wrapper \in {"ticket", "llm", "http"} => last.out.kind = "return"
    /\ Val(REGISTRY.tickets_processed_total,
           <<SharedTicket.category, SharedKwargs.environment, SharedTicket.channel>>)
         = Cardinality(Settled("ticket"))
    /\ Count(REGISTRY.response_duration_milliseconds) = Cardinality(Settled("ticket"))
    /\ Val(REGISTRY.llm_api_requests_total, <<SharedModel[1], SharedModel[2], "success">>)
         = Cardinality(Settled("llm"))
    /\ HCount(REGISTRY.llm_response_duration_seconds, SharedModel) = Cardinality(Settled("llm"))
    /\ Val(REGISTRY.http_requests_total, <<SharedRequest.method, SharedRequest.path, Str(200)>>)
         = Cardinality(Settled("http"))

\* two ticket calls overlap: the one started second has completed and is
\* counted while the one started first is still awaiting its operation
C12_Witness ==
    /\ InFlight("ticket") = {1}
    /\ Settled("ticket") = {2}
    /\ last.wrapper = "ticket"
    /\ last.out.kind = "return"
    /\ Val(REGISTRY.tickets_processed_total, <<"billing", "staging", "email">>) = 1

\* the exported buckets of h: one per boundary and +Inf, cumulative counts
\* that never fall from one boundary to the next, the last one counting all
\* n observations
WellFormed(h, bounds, n) ==
    /\ Len(h.buckets) = Len(bounds) + 1
    /\ \A i \in 2..Len(h.buckets) : Cumulative(h, i) >= Cumulative(h, i - 1)
    /\ Cumulative(h, Len(h.buckets)) = n

\* the duration the last completed call added to the sum of its histogram
TicketMeasured ==
    REGISTRY.response_duration_milliseconds.sum - last.pre.response_duration_milliseconds.sum

LlmBefore == HLabels(last.pre.llm_response_duration_seconds, LlmBuckets, SharedModel)[SharedModel]
LlmMeasured == REGISTRY.llm_response_duration_seconds[SharedModel].sum - LlmBefore.sum

\* the call counted in the +Inf bucket and in no finite one
OnlyInfGrew(h1, h0, bounds) ==
    /\ Cumulative(h1, Len(bounds)) = Cumulative(h0, Len(bounds))
    /\ Cumulative(h1, Len(bounds) + 1) = Cumulative(h0, Len(bounds) + 1) + 1

\* C13: for every histogram series the cumulative bucket counts are
\* non-decreasing in the boundary, the +Inf bucket equals the number of
\* observations (a ticket duration above 30000 ms counts in +Inf and in
\* no finite bucket), and the set of boundaries never changes.
C13_HistogramShape ==
    /\ WellFormed(REGISTRY.response_duration_milliseconds, TicketBuckets,
                  Val(ledger.response_duration_milliseconds, << >>))
    /\ DOMAIN REGISTRY.llm_response_duration_seconds
         = DOMAIN ledger.llm_response_duration_seconds
    /\ \A k \in DOMAIN REGISTRY.llm_response_duration_seconds :
           WellFormed(REGISTRY.llm_response_duration_seconds[k], LlmBuckets,
                      ledger.llm_response_duration_seconds[k])
    /\ (Completed("ticket") /\ TicketMeasured > TicketBuckets[Len(TicketBuckets)]) =>
           OnlyInfGrew(REGISTRY.response_duration_milliseconds,
                       last.pre.response_duration_milliseconds, TicketBuckets)
    /\ (Completed("llm") /\ LlmMeasured > LlmBuckets[Len(LlmBuckets)]) =>
           OnlyInfGrew(REGISTRY.llm_response_duration_seconds[SharedModel],
                       LlmBefore, LlmBuckets)

\* a ticket that took more than 30000 ms, observed after a quick one
C13_Witness ==
    /\ Completed("ticket")
    /\ TicketMeasured > 30000
    /\ Count(REGISTRY.response_duration_milliseconds) = 2
    /\ Cumulative(REGISTRY.response_duration_milliseconds, Len(TicketBuckets)) = 1

\* some llen of the client the queue refresh was given fails
QueueReadFails == \E q \in DOMAIN last.arg : last.arg[q].kind = "raise"

\* C14: when any of the three queue length reads of update_queue_metrics
\* fails, none of the three queue_depth gauges changes (nor anything else
\* in the registry) and the call returns normally to the scheduler.
C14_QueueRefreshAllOrNothing ==
    (Completed("queue") /\ QueueReadFails) =>
        /\ REGISTRY.queue_depth = last.pre.queue_depth
        /\ REGISTRY = last.pre
        /\ last.out = Return(NoneValue)

\* the third read fails after an earlier refresh had set the gauges
C14_Witness ==
    /\ Completed("queue")
    /\ last.arg["queue:high"].kind = "return"
    /\ last.arg["queue:medium"].kind = "return"
    /\ last.arg["queue:low"].kind = "raise"
    /\ Val(REGISTRY.queue_depth, <<"high">>) = 2
    /\ Val(REGISTRY.queue_depth, <<"low">>) = 5

\* the pool the last refresh was given lacks one of the three attributes
PoolReadFails == \E a \in {"size", "free_count", "max_size"} : a \notin last.arg.attrs

DbGauges(reg) ==
    <<reg.db_connections_active, reg.db_connections_max, reg.db_connections_idle>>

\* C15: when update_db_connection_metrics fails at any point while
\* reading the pool (size, free_count or max_size unavailable), all three
\* connection gauges keep their last-known values and the call returns
\* normally to the scheduler.
C15_DbRefreshAllOrNothing ==
    (Completed("db") /\ PoolReadFails) =>
        /\ DbGauges(REGISTRY) = DbGauges(last.pre)
        /\ last.out = Return(NoneValue)

\* C20: after an update_db_connection_metrics call whose reads and sets
\* all went through, the active gauge is size minus free_count, the idle
\* gauge is free_count and the max gauge is max_size, as read from the
\* pool in that call; so active plus idle is the pool size.
C20_DbGaugesConsistent ==
    (Completed("db") /\ last.tried.kind = "return") =>
        /\ REGISTRY.db_connections_active = last.arg.size.v - last.arg.free_count.v
        /\ REGISTRY.db_connections_idle = last.arg.free_count.v
        /\ REGISTRY.db_connections_max = last.arg.max_size.v
        /\ REGISTRY.db_connections_active + REGISTRY.db_connections_idle = last.arg.size.v

\* a pool of 10 connections, 4 of them free, refreshed over an earlier
\* reading
C20_Witness ==
    /\ Completed("db")
    /\ last.tried.kind = "return"
    /\ last.pre.db_connections_max = 20
    /\ last.pre.db_connections_idle = 5
    /\ DbGauges(REGISTRY) = <<6, 20, 4>>

BudgetGauges(reg) ==
    <<reg.cost_budget_monthly, reg.support_agent_cost_savings_dollars,
      reg.monthly_cost_savings_dollars>>

\* reg1 and reg0 agree on every counter and every histogram
SameCountersAndHistograms(reg1, reg0) ==
    \A i \in Counters \cup Histograms : reg1[i] = reg0[i]

\* C16: after every call of update_cost_budget_tracking the four budget
\* gauges hold llm_api = 1200, aws_infrastructure = 800, vector_db = 300
\* and monitoring = 200, the support-savings gauge holds 4000 and the
\* net-savings gauge 4000 - 2500 = 1500; a second call changes nothing,
\* and the call changes no counter or histogram.
C16_BudgetRefresh ==
    Completed("budget") =>
        /\ DOMAIN REGISTRY.cost_budget_monthly
             = {<<"llm_api">>, <<"aws_infrastructure">>, <<"vector_db">>, <<"monitoring">>}
        /\ REGISTRY.cost_budget_monthly[<<"llm_api">>] = 1200
        /\ REGISTRY.cost_budget_monthly[<<"aws_infrastructure">>] = 800
        /\ REGISTRY.cost_budget_monthly[<<"vector_db">>] = 300
        /\ REGISTRY.cost_budget_monthly[<<"monitoring">>] = 200
        /\ REGISTRY.support_agent_cost_savings_dollars = 4000
        /\ REGISTRY.monthly_cost_savings_dollars = 1500
        /\ SameCountersAndHistograms(REGISTRY, last.pre)
        /\ update_cost_budget_tracking(REGISTRY).reg = REGISTRY
        /\ BudgetGauges(last.pre) # BudgetGauges(InitRegistry) => REGISTRY = last.pre
        /\ last.out = Return(NoneValue)

\* a second budget refresh, with requests counted before it
C16_Witness ==
    /\ Completed("budget")
    /\ last.pre.monthly_cost_savings_dollars = 1500
    /\ REGISTRY.monthly_cost_savings_dollars = 1500
    /\ REGISTRY.http_requests_total # EmptySeries

\* C17: the metrics endpoint never serves a cached document: a document
\* served after increments, observations and gauge sets have completed
\* holds the samples of the registry as those mutations left it, and
\* serving changes no instrument value.
C17_ScrapeIsFresh ==
    Completed("metrics") =>
        /\ served.served
        /\ served.document = generate_latest(REGISTRY)
        /\ REGISTRY = last.pre

\* a document that shows a counted request, an observed ticket and the
\* budget gauges
C17_Witness ==
    /\ Completed("metrics")
    /\ served.document.http_requests_total # EmptySeries
    /\ served.document.response_duration_milliseconds.count = 1
    /\ served.document.monthly_cost_savings_dollars = 1500

\* what the returned result of the last ticket call signals
SignalsAuto == Get(last.out.value, "auto_resolved", FALSE)
SignalsEscalation == Get(last.out.value, "escalated", FALSE)

ExpectedReason ==
    IF "escalation_reason" \in last.out.value.keys
    THEN last.out.value.escalation_reason ELSE "unknown"

\* C18: a successful ticket call increments at most one of
\* tickets_resolved_auto_total and tickets_escalated_total, by exactly 1:
\* only the auto-resolved counter when the result signals auto-resolution
\* (even if it signals escalation too), only the escalated counter on
\* (category, escalation_reason or "unknown") when it signals escalation
\* alone, and neither when it signals neither.
C18_OneResolution ==
    (Completed("ticket") /\ last.out.kind = "return") =>
        LET auto1 == REGISTRY.tickets_resolved_auto_total
            auto0 == last.pre.tickets_resolved_auto_total
            esc1 == REGISTRY.tickets_escalated_total
            esc0 == last.pre.tickets_escalated_total
        IN  IF SignalsAuto
            THEN /\ \E k \in DOMAIN auto1 : k[1] = ExpectedCategory /\ OnlyIncrement(auto1, auto0, k, 1)
                 /\ SameValues(esc1, esc0)
            ELSE IF SignalsEscalation
            THEN /\ OnlyIncrement(esc1, esc0, <<ExpectedCategory, ExpectedReason>>, 1)
                 /\ SameValues(auto1, auto0)
            ELSE SameValues(auto1, auto0) /\ SameValues(esc1, esc0)

\* a result that signals both auto-resolution and escalation, counted as
\* auto-resolved after an escalation without a reason was counted
C18_Witness ==
    /\ Completed("ticket")
    /\ last.out.kind = "return"
    /\ SignalsAuto
    /\ SignalsEscalation
    /\ \E c \in {"billing", "general_inquiry"} :
           Val(REGISTRY.tickets_escalated_total, <<c, "unknown">>) = 1
    /\ \E k \in DOMAIN REGISTRY.tickets_resolved_auto_total :
           REGISTRY.tickets_resolved_auto_total[k] = 1

\* the calls that are still awaiting their operation
Awaiting == DOMAIN ticket_calls \cup DOMAIN llm_calls \cup DOMAIN http_calls

RECURSIVE SumOver(_, _)
SumOver(c, keys) ==
    IF keys = {} THEN 0
    ELSE LET k == CHOOSE x \in keys : TRUE
         IN  c[k] + SumOver(c, keys \ {k})

Total(c) == SumOver(c, DOMAIN c)

\* C21: in every state reached by interleaved ticket-wrapper calls the
\* observation count of the response-duration histogram equals the sum
\* of tickets_processed_total over all its label combinations, and the
\* sums of tickets_resolved_auto_total and tickets_escalated_total
\* together never exceed that sum.
C21_TicketTotals ==
    /\ Count(REGISTRY.response_duration_milliseconds) = Total(REGISTRY.tickets_processed_total)
    /\ Total(REGISTRY.tickets_resolved_auto_total) + Total(REGISTRY.tickets_escalated_total)
         <= Total(REGISTRY.tickets_processed_total)

\* two tickets processed on different series, one of them resolved, the
\* other failing in the resolution block after it was counted
C21_Witness ==
    /\ Completed("ticket")
    /\ last.op.kind = "return"
    /\ last.out.kind = "raise"
    /\ Cardinality(DOMAIN REGISTRY.tickets_processed_total) = 2
    /\ Total(REGISTRY.tickets_processed_total) = 2
    /\ Total(REGISTRY.tickets_resolved_auto_total) + Total(REGISTRY.tickets_escalated_total) = 1

\* the sum of llm_api_errors_total over the error types of a provider
ErrorsOf(provider) ==
    SumOver(REGISTRY.llm_api_errors_total,
            {k \in DOMAIN REGISTRY.llm_api_errors_total : k[1] = provider})

\* the sum of llm_api_requests_total{status=error} over its models
ErrorRequestsOf(provider) ==
    SumOver(REGISTRY.llm_api_requests_total,
            {k \in DOMAIN REGISTRY.llm_api_requests_total :
                k[1] = provider /\ k[3] = "error"})

\* C22: in every state reached by interleaved LLM-wrapper calls, for
\* each provider the sum of llm_api_errors_total over all error types
\* equals the sum of llm_api_requests_total with status error over all
\* models of that provider, and for each (provider, model) the success
\* count never exceeds the observation count of the latency histogram.
C22_LlmTotals ==
    /\ \A d \in ModelSites : ErrorsOf(d[1]) = ErrorRequestsOf(d[1])
    /\ \A d \in ModelSites :
           Val(REGISTRY.llm_api_requests_total, <<d[1], d[2], "success">>)
             <= HCount(REGISTRY.llm_response_duration_seconds, d)

\* one provider with failures of two types on two models, one of them
\* raised by the usage block after the latency was observed
C22_Witness ==
    /\ Completed("llm")
    /\ Val(REGISTRY.llm_api_errors_total, <<"anthropic", "RuntimeError">>) = 1
    /\ Val(REGISTRY.llm_api_errors_total, <<"anthropic", "ValueError">>) = 1
    /\ Val(REGISTRY.llm_api_requests_total, <<"anthropic", "claude-sonnet-4", "error">>) = 1
    /\ Val(REGISTRY.llm_api_requests_total, <<"anthropic", "claude-haiku", "error">>) = 1
    /\ ErrorsOf("anthropic") = 2
    /\ HCount(REGISTRY.llm_response_duration_seconds, <<"anthropic", "claude-haiku">>)
         + HCount(REGISTRY.llm_response_duration_seconds, <<"anthropic", "claude-sonnet-4">>) = 1

\* a call that starts in this step takes the clock as its start time, and
\* the start time of a call that stays in flight is left as it is
StartIsPrivate(calls, calls1) ==
    /\ \A id \in DOMAIN calls1 \ DOMAIN calls : calls1[id].start_time = clock
    /\ \A id \in DOMAIN calls \cap DOMAIN calls1 :
           calls1[id].start_time = calls[id].start_time

\* the sum of the latency histogram of a (provider, model) pair
LlmLatencySum(reg, pm) == HLabels(reg.llm_response_duration_seconds, LlmBuckets, pm)[pm].sum

\* a call that completes in this step after its operation returned adds
\* to its histogram the clock now minus its own start time
DurationIsOwn ==
    /\ \A id \in DOMAIN ticket_calls \ DOMAIN ticket_calls' :
           last'.op.kind = "return" =>
               /\ REGISTRY'.response_duration_milliseconds.sum
                    - REGISTRY.response_duration_milliseconds.sum
                    = clock - ticket_calls[id].start_time
               /\ clock - ticket_calls[id].start_time >= 0
    /\ \A id \in DOMAIN llm_calls \ DOMAIN llm_calls' :
           last'.op.kind = "return" =>
               LET pm == <<llm_calls[id].provider, llm_calls[id].model>>
               IN  /\ LlmLatencySum(REGISTRY', pm) - LlmLatencySum(REGISTRY, pm)
                        = clock - llm_calls[id].start_time
                   /\ clock - llm_calls[id].start_time >= 0

\* C23: with several ticket and LLM wrapper calls in flight at once, the
\* start time of a call is the clock at its own start and no other call
\* overwrites it, and the duration a call records is the clock at its
\* own completion minus that start time: with a non-decreasing clock it
\* is never negative and includes the time the call spent suspended.
C23_TimingIsolated ==
    [][/\ StartIsPrivate(ticket_calls, ticket_calls')
       /\ StartIsPrivate(llm_calls, llm_calls')
       /\ DurationIsOwn]_vars

\* a ticket call that started at 0 records the whole time it was
\* suspended, while a call that started after it is still in flight
C23_Witness ==
    /\ Completed("ticket")
    /\ last.frame.start_time = 0
    /\ clock > 0
    /\ TicketMeasured = clock
    /\ \E id \in DOMAIN ticket_calls \cup DOMAIN llm_calls :
           (ticket_calls @@ llm_calls)[id].start_time = clock

====
